---- MODULE Spec2Model ----
(***************************************************************************)
(* A model of notebooks/dose-response-activation.ipynb: the synthetic      *)
(* dose-response data, the four-parameter sigmoid dose_response, and the   *)
(* three PyMC3 model specifications with their sampling and plotting       *)
(* cells, run top to bottom.                                               *)
(*                                                                         *)
(* Numbers.  The notebook computes in binary floating point (numpy         *)
(* float64).  The model keeps the structure of that arithmetic and bounds  *)
(* its size: a number is an integer count of quanta of 1/Unit, and every   *)
(* operation rounds its exact result to the nearest number with at most    *)
(* Prec significant bits, ties to the even significand (IEEE 754           *)
(* round-to-nearest-even with gradual underflow at the quantum; there is   *)
(* no largest exponent, so overflow to inf and NaN are not modelled).      *)
(***************************************************************************)
EXTENDS Integers, Sequences, FiniteSets, TLC

\* ------------------------------------------------------------- bounds ----

\* Significant bits of a floating-point number (float64: 53).
Prec == 5
\* A number is a multiple of 2^-FracBits (float64: 2^-1074).
FracBits == 4
\* Seeds the random generator may be in when noise() is called.
MaxSeed == 4
\* Seeds of the sampler's chain in pm.sample.
MaxChainSeed == 2
\* Draws kept in a trace (the notebook asks for 2000).
Draws == 2
\* The inputs of dose_response range over x = k/2 with |k| <= MaxX.
MaxX == 4

\* ------------------------------------------------- floating point --------

Unit == 2 ^ FracBits

Abs(n) == IF n < 0 THEN 0 - n ELSE n

\* a/d rounded to the nearest integer, ties to even (a >= 0, d > 0).
RoundHalfEven(a, d) ==
  LET q == a \div d
      r == a % d
  IN  IF 2 * r < d THEN q
      ELSE IF 2 * r > d THEN q + 1
      ELSE IF q % 2 = 0 THEN q ELSE q + 1

RECURSIVE Exponent(_, _, _)
\* The least k >= 0 with a / (den * 2^k) < 2^Prec: the exponent of a/den.
Exponent(a, den, k) ==
  IF a \div (den * (2 ^ k)) < 2 ^ Prec THEN k ELSE Exponent(a, den, k + 1)

\* The floating-point number nearest to num/den quanta (den > 0).
FRound(num, den) ==
  IF num = 0 THEN 0
  ELSE LET a == Abs(num)
           k == Exponent(a, den, 0)
           m == RoundHalfEven(a, den * (2 ^ k)) * (2 ^ k)
       IN  IF num < 0 THEN 0 - m ELSE m

\* The literal n/d as the parser reads it.
Lit(n, d) == FRound(n * Unit, d)

FAdd(a, b) == FRound(a + b, 1)
FSub(a, b) == FRound(a - b, 1)
FMul(a, b) == FRound(a * b, Unit)
FDiv(a, b) == IF b > 0 THEN FRound(a * Unit, b) ELSE FRound((0 - a) * Unit, 0 - b)

\* The values of np.exp: entry k + ExpMax * ExpScale + 1 is e^(k / ExpScale)
\* in units of 1/ExpPrec, for |k| <= ExpMax * ExpScale.
ExpTable ==
  <<
    0, 0, 0, 0, 0, 0, 0, 0, 0, 0,
    0, 0, 0, 0, 0, 0, 0, 0, 0, 0,
    0, 0, 0, 0, 0, 0, 0, 0, 0, 0,
    0, 0, 0, 0, 0, 0, 0, 0, 0, 0,
    0, 0, 0, 0, 0, 0, 0, 0, 0, 0,
    0, 0, 0, 0, 0, 0, 0, 0, 0, 0,
    0, 0, 0, 0, 0, 0, 0, 0, 0, 0,
    0, 0, 0, 0, 0, 0, 0, 0, 0, 0,
    0, 0, 0, 0, 0, 0, 0, 0, 0, 0,
    0, 0, 0, 0, 0, 0, 0, 0, 0, 0,
    0, 0, 0, 0, 0, 0, 0, 0, 0, 0,
    0, 0, 0, 0, 0, 0, 0, 0, 0, 0,
    0, 0, 0, 0, 0, 0, 0, 0, 0, 0,
    0, 0, 0, 0, 0, 0, 0, 0, 0, 0,
    0, 0, 0, 0, 0, 0, 0, 0, 0, 0,
    0, 0, 0, 0, 0, 0, 0, 0, 0, 0,
    0, 0, 0, 0, 0, 0, 0, 0, 0, 0,
    0, 0, 0, 0, 0, 0, 0, 0, 0, 0,
    0, 0, 0, 0, 0, 0, 0, 0, 0, 0,
    0, 0, 0, 0, 0, 0, 0, 0, 0, 0,
    0, 0, 0, 0, 0, 0, 0, 0, 0, 0,
    0, 0, 0, 0, 0, 0, 0, 0, 0, 0,
    0, 0, 0, 0, 0, 0, 0, 0, 0, 0,
    0, 0, 0, 0, 0, 0, 0, 0, 0, 0,
    0, 0, 0, 0, 0, 0, 0, 0, 0, 0,
    0, 0, 0, 0, 0, 0, 0, 0, 0, 0,
    0, 0, 0, 0, 0, 0, 0, 0, 0, 0,
    0, 0, 0, 0, 0, 0, 0, 0, 0, 0,
    0, 0, 0, 0, 0, 0, 0, 0, 0, 0,
    0, 0, 0, 0, 0, 0, 0, 0, 0, 0,
    0, 0, 0, 0, 0, 0, 0, 0, 0, 0,
    0, 0, 0, 0, 0, 0, 0, 0, 0, 0,
    0, 0, 0, 0, 0, 0, 0, 0, 0, 0,
    0, 0, 0, 0, 0, 1, 1, 1, 1, 1,
    1, 1, 1, 1, 1, 1, 1, 1, 1, 1,
    1, 1, 1, 1, 1, 1, 1, 1, 1, 1,
    1, 1, 1, 1, 1, 1, 1, 1, 1, 1,
    2, 2, 2, 2, 2, 2, 2, 2, 2, 2,
    2, 2, 2, 2, 2, 2, 2, 3, 3, 3,
    3, 3, 3, 3, 3, 3, 3, 4, 4, 4,
    4, 4, 4, 4, 4, 5, 5, 5, 5, 5,
    5, 5, 6, 6, 6, 6, 6, 7, 7, 7,
    7, 7, 8, 8, 8, 8, 9, 9, 9, 10,
    10, 10, 11, 11, 11, 12, 12, 12, 13, 13,
    13, 14, 14, 15, 15, 16, 16, 17, 17, 18,
    18, 19, 20, 20, 21, 22, 22, 23, 24, 24,
    25, 26, 27, 28, 29, 29, 30, 31, 32, 33,
    34, 36, 37, 38, 39, 40, 42, 43, 44, 46,
    47, 49, 50, 52, 53, 55, 57, 59, 60, 62,
    64, 66, 69, 71, 73, 75, 78, 80, 83, 85,
    88, 91, 94, 97, 100, 103, 106, 109, 113, 117,
    120, 124, 128, 132, 136, 141, 145, 150, 154, 159,
    164, 170, 175, 181, 186, 192, 198, 205, 211, 218,
    225, 232, 239, 247, 255, 263, 271, 280, 288, 298,
    307, 317, 327, 337, 348, 359, 370, 382, 394, 407,
    420, 433, 447, 461, 476, 491, 506, 522, 539, 556,
    574, 592, 611, 630, 650, 671, 692, 714, 737, 760,
    784, 809, 835, 861, 888, 917, 946, 976, 1007, 1039,
    1072, 1106, 1141, 1177, 1214, 1253, 1293, 1334, 1376, 1420,
    1465, 1511, 1559, 1609, 1660, 1713, 1767, 1823, 1881, 1941,
    2002, 2066, 2131, 2199, 2269, 2341, 2415, 2492, 2571, 2653,
    2737, 2824, 2913, 3006, 3101, 3200, 3301, 3406, 3514, 3626,
    3741, 3859, 3982, 4108, 4239, 4373, 4512, 4655, 4803, 4956,
    5113, 5275, 5443, 5615, 5794, 5978, 6167, 6363, 6565, 6774,
    6989, 7210, 7439, 7675, 7919, 8170, 8430, 8697, 8973, 9258,
    9552, 9855, 10168, 10491, 10824, 11168, 11522, 11888, 12265, 12655,
    13056, 13471, 13898, 14340, 14795, 15264, 15749, 16249, 16765, 17297,
    17846, 18412, 18997, 19600, 20222, 20864, 21526, 22210, 22915, 23642,
    24392, 25167, 25966, 26790, 27640, 28518, 29423, 30357, 31321, 32315,
    33341, 34399, 35491, 36617, 37780, 38979, 40216, 41493, 42810, 44169,
    45571, 47018, 48510, 50050, 51639, 53278, 54969, 56714, 58515, 60372,
    62288, 64266, 66306, 68410, 70582, 72823, 75134, 77519, 79980, 82519,
    85138, 87841, 90629, 93506, 96474, 99537, 102696, 105956, 109320, 112790,
    116370, 120064, 123875, 127807, 131865, 136050, 140369, 144825, 149422, 154165,
    159059, 164108, 169317, 174692, 180237, 185959, 191862, 197952, 204236, 210719,
    217408, 224309, 231429, 238776, 246355, 254176, 262244, 270568, 279157, 288019,
    297161, 306594, 316327, 326368, 336728, 347417, 358445, 369823, 381563, 393675,
    406171, 419065, 432367, 446092, 460252, 474862, 489936, 505488, 521534, 538090,
    555170, 572793, 590976, 609735, 629090, 649060, 669663, 690921, 712853, 735481,
    758828, 782916, 807768, 833409, 859865, 887160, 915321, 944377, 974354, 1005284,
    1037195, 1070119, 1104088, 1139136, 1175296, 1212604, 1251096, 1290810, 1331784, 1374060,
    1417677, 1462679, 1509109, 1557014, 1606439, 1657432, 1710045, 1764328, 1820333, 1878117,
    1937735, 1999245, 2062708, 2128185, 2195741, 2265442, 2337354, 2411550, 2488101, 2567082,
    2648570, 2732644, 2819388, 2908885, 3001223, 3096492, 3194785, 3296198, 3400831, 3508785,
    3620165, 3735082, 3853646, 3975974, 4102185, 4232402, 4366753, 4505369, 4648384, 4795940,
    4948179, 5105251, 5267310, 5434512, 5607022, 5785008, 5968644, 6158109, 6353588, 6555273,
    6763359, 6978051, 7199559, 7428097, 7663890, 7907168, 8158169, 8417137, 8684325, 8959995,
    9244416, 9537865, 9840630, 10153005, 10475296, 10807817, 11150894, 11504862, 11870065, 12246862,
    12635619, 13036716, 13450546, 13877512, 14318032, 14772535, 15241465, 15725282, 16224456, 16739475,
    17270843, 17819078, 18384717, 18968310, 19570429, 20191661, 20832613, 21493911, 22176201, 22880150,
    23606444, 24355792, 25128928, 25926606, 26749605, 27598729, 28474806, 29378694, 30311273, 31273457,
    32266183, 33290421, 34347173, 35437469, 36562375, 37722989, 38920446, 40155913, 41430599, 42745747,
    44102643, 45502611, 46947019, 48437277, 49974841, 51561213, 53197942, 54886626, 56628914, 58426509,
    60281165, 62194695, 64168966, 66205908, 68307509, 70475822, 72712965, 75021122, 77402548, 79859569,
    82394584, 85010069, 87708578, 90492747, 93365295, 96329028, 99386840, 102541716, 105796740, 109155089,
    112620043, 116194987, 119883412, 123688920, 127615228, 131666170, 135845703, 140157909, 144606998, 149197317,
    153933348, 158819717, 163861196, 169062709, 174429336, 179966317, 185679061, 191573147, 197654332, 203928554,
    210401941, 217080816, 223971700, 231081325, 238416634, 245984790, 253793186, 261849446, 270161440, 278737285,
    287585356, 296714295, 306133018, 315850723, 325876901, 336221344, 346894155, 357905758, 369266906, 380988696,
    393082576, 405560356, 418434224, 431716752, 445420913, 459560090, 474148093, 489199169, 504728018, 520749805,
    537280178, 554335282, 571931773, 590086836, 608818203, 628144167, 648083604, 668655986, 689881405, 711780592,
    734374933, 757686496, 781738047, 806553076, 832155819, 858571280, 885825258, 913944371, 942956079, 972888718,
    1003771521, 1035634650, 1068509222, 1102427346, 1137422147
  >>

\* The resolution of the table's arguments, the resolution of its values, and
\* the largest |argument| it holds.
ExpScale == 32
ExpPrec == 128
ExpMax == 16

\* np.exp: e^(t/Unit), rounded.
FExp(t) == FRound(ExpTable[t * (ExpScale \div Unit) + ExpMax * ExpScale + 1], ExpPrec \div Unit)

\* ------------------------------------------------- dose_response ---------

\* dose_response with x - c50 for c50 - x: the inhibition (IC50) curve.
dose_response_swapped(x, lower, upper, slope, c50) ==
  FAdd(lower, FDiv(FSub(upper, lower), FAdd(Lit(1, 1), FExp(FMul(slope, FSub(x, c50))))))

\* dose_response with c50 + x for c50 - x.
dose_response_halfmax(x, lower, upper, slope, c50) ==
  FAdd(lower, FDiv(FSub(upper, lower), FAdd(Lit(1, 1), FExp(FMul(slope, FAdd(c50, x))))))

\* dose_response with upper + lower for upper - lower.
dose_response_sum(x, lower, upper, slope, c50) ==
  FAdd(lower, FDiv(FAdd(upper, lower), FAdd(Lit(1, 1), FExp(FMul(slope, FSub(c50, x))))))

\* lower + (upper - lower) / (1 + np.exp(slope * (c50 - x)))
dose_response(x, lower, upper, slope, c50) ==
  FAdd(lower, FDiv(FSub(upper, lower), FAdd(Lit(1, 1), FExp(FMul(slope, FSub(c50, x))))))

\* ------------------------------------------------- the notebook's data ---

\* np.linspace(-2, 2, 10): NConc points; [...] * 5: Replicates rows.
NConc == 10
Replicates == 5
NMolecules == 3
NRows == NMolecules * Replicates * NConc

\* np.linspace(start, stop, num): start + k * step, the last point being stop.
Linspace(start, stop, num) ==
  LET step == FDiv(FSub(stop, start), Lit(num - 1, 1))
  IN  [k \in 1..num |-> IF k = num THEN stop
                        ELSE FAdd(start, FMul(Lit(k - 1, 1), step))]

\* np.vstack([row] * n): n copies of row, one per line.
VStack(row, n) == [r \in 1..n |-> row]

\* ndarray.flatten(): the lines of a 2-d array one after the other.
Flatten(a) ==
  LET cols == Len(a[1])
  IN  [i \in 1..(Len(a) * cols) |-> a[((i - 1) \div cols) + 1][((i - 1) % cols) + 1]]

\* np.concatenate([a, b, c]) of 1-d arrays.
Concatenate(a, b, c) == a \o b \o c

\* The curve parameters the notebook gives molecules 0, 1 and 2.
Params ==
  << [lower |-> Lit(3, 1), upper |-> Lit(6, 1), slope |-> Lit(4, 1), c50 |-> Lit(0, 1)],
     [lower |-> Lit(25, 10), upper |-> Lit(8, 1), slope |-> Lit(3, 1), c50 |-> Lit(15, 10)],
     [lower |-> Lit(32, 10), upper |-> Lit(34, 10), slope |-> Lit(15, 10), c50 |-> Lit(0, 1)] >>

\* The sd passed to noise().
NoiseSD == Lit(5, 10)

\* The k-th standard normal draw of a generator seeded with seed; the draws
\* range over -2..2.
StdNormal(seed, k) == ((seed * 7 + k * 3 + (k \div 10)) % 5) - 2

\* np.random.normal(0, scale=sd, size=x.shape): 0 + sd * z with one draw z per
\* element, taken in order from the generator's stream from position start.
noise(x, sd, seed, start) ==
  [r \in 1..Len(x) |->
     [c \in 1..Len(x[r]) |->
        FAdd(0, FMul(sd, Lit(StdNormal(seed, start + (r - 1) * Len(x[r]) + (c - 1)), 1)))]]

\* dose_response applied elementwise to a 2-d array, plus a noise array.
Response(x, p, e) ==
  [r \in 1..Len(x) |->
     [c \in 1..Len(x[r]) |->
        FAdd(dose_response(x[r][c], p.lower, p.upper, p.slope, p.c50), e[r][c])]]

\* [0] * len(x1.flatten()) + [1] * len(x2.flatten()) + [2] * len(x3.flatten())
MoleculeLabels(n1, n2, n3) ==
  [i \in 1..n1 |-> 0] \o [i \in 1..n2 |-> 1] \o [i \in 1..n3 |-> 2]

\* The dtype pandas gives a column: float64 to a float ndarray, int64 to a
\* list of Python ints.
ColumnDType(kind) ==
  IF kind = "ndarray_float" THEN "float64"
  ELSE IF kind = "list_int" THEN "int64"
  ELSE "object"

\* The molecule column built from float labels ([0.0] * n + ...).
MoleculeColumn_float(a, b, c) ==
  [dtype |-> ColumnDType("ndarray_float"),
   values |-> MoleculeLabels(Len(Flatten(a)), Len(Flatten(b)), Len(Flatten(c)))]

MoleculeColumn(a, b, c) ==
  [dtype |-> ColumnDType("list_int"),
   values |-> MoleculeLabels(Len(Flatten(a)), Len(Flatten(b)), Len(Flatten(c)))]

\* The response column with y1 and y2 in the wrong order.
ResponseColumn_swapped(a, b, c) ==
  [dtype |-> ColumnDType("ndarray_float"),
   values |-> Concatenate(Flatten(b), Flatten(a), Flatten(c))]

ResponseColumn(a, b, c) ==
  [dtype |-> ColumnDType("ndarray_float"),
   values |-> Concatenate(Flatten(a), Flatten(b), Flatten(c))]

\* pd.DataFrame({"concentration": ..., "response": ..., "molecule": ...})
DataFrame(a1, a2, a3, b1, b2, b3) ==
  [concentration |-> [dtype |-> ColumnDType("ndarray_float"),
                      values |-> Concatenate(Flatten(a1), Flatten(a2), Flatten(a3))],
   response |-> ResponseColumn(b1, b2, b3),
   molecule |-> MoleculeColumn(a1, a2, a3)]

NoColumn == [dtype |-> "object", values |-> << >>]
NoFrame == [concentration |-> NoColumn, response |-> NoColumn, molecule |-> NoColumn]

\* ------------------------------------------------- the PyMC3 models ------

\* An argument of a distribution: a number, or (rv # "") a random variable.
Const(p, n) == [p |-> p, rv |-> "", c |-> Lit(n, 1)]
Ref(p, name) == [p |-> p, rv |-> name, c |-> 0]

\* pm.<dist>(name, <params>, shape=shape); shape << >> is a scalar.
RV(name, dist, params, shape) ==
  [name |-> name, dist |-> dist, params |-> params, shape |-> shape, observed |-> FALSE]

\* The values a distribution ranges over.
Support(dist) ==
  IF dist = "Normal" THEN "real"
  ELSE IF dist = "HalfNormal" THEN "nonnegative"
  ELSE IF dist = "Exponential" THEN "nonnegative"
  ELSE IF dist = "Gamma" THEN "positive"
  ELSE "unknown"

\* v[idx] for a vector random variable v and an integer array idx: row i
\* refers to element idx[i] of v.
TakeRows_byPosition(name, idx) ==
  [i \in 1..Len(idx) |-> [rv |-> name, at |-> (i - 1) % NMolecules]]

TakeRows(name, idx) == [i \in 1..Len(idx) |-> [rv |-> name, at |-> idx[i]]]

\* mu = dose_response(df["concentration"], lower[m], upper[m], slope[m], c50[m])
\* with m = df["molecule"].values: the curve of every row, over the model's
\* random variables.
MuRows(d) ==
  LET m == d.molecule.values
      lo == TakeRows("lower", m)
      up == TakeRows("upper", m)
      sl == TakeRows("slope", m)
      c5 == TakeRows("c50", m)
  IN  [i \in 1..Len(d.concentration.values) |->
         [x |-> d.concentration.values[i],
          lower |-> lo[i], upper |-> up[i], slope |-> sl[i], c50 |-> c5[i]]]

\* pm.Normal("like", mu=mu, sd=sd[df["molecule"].values], observed=df["response"])
Likelihood(d) ==
  [rv |-> [name |-> "like", dist |-> "Normal",
           params |-> << Ref("mu", "mu"), Ref("sd", "sd") >>,
           shape |-> << Len(d.response.values) >>, observed |-> TRUE],
   mu |-> MuRows(d),
   sd |-> TakeRows("sd", d.molecule.values),
   observed |-> d.response.values]

NoLikelihood ==
  [rv |-> [name |-> "", dist |-> "", params |-> << >>, shape |-> << >>, observed |-> FALSE],
   mu |-> << >>, sd |-> << >>, observed |-> << >>]

NoModel == [name |-> "", rvs |-> << >>, like |-> NoLikelihood]

\* The free random variables of `model`, in the order the cell defines them.
ModelRVs ==
  << RV("lower", "Normal", << Const("mu", 0), Const("sd", 10) >>, << 3 >>),
     RV("upper", "Normal", << Const("mu", 10), Const("sd", 10) >>, << 3 >>),
     RV("c50", "Normal", << Const("mu", 0), Const("sd", 10) >>, << 3 >>),
     RV("slope", "HalfNormal", << Const("sd", 10) >>, << 3 >>),
     RV("sd", "HalfNormal", << Const("sd", 10) >>, << 3 >>) >>

\* model_v2 with the prior of slope left as in `model`.
ModelV2RVs_fixedSlope ==
  << RV("lower_mu", "Normal", << Const("mu", 0), Const("sd", 3) >>, << >>),
     RV("lower_sd", "Exponential", << Const("lam", 5) >>, << >>),
     RV("lower", "Normal", << Ref("mu", "lower_mu"), Ref("sd", "lower_sd") >>, << 3 >>),
     RV("upper_mu", "Normal", << Const("mu", 7), Const("sd", 3) >>, << >>),
     RV("upper_sd", "Exponential", << Const("lam", 5) >>, << >>),
     RV("upper", "Normal", << Ref("mu", "upper_mu"), Ref("sd", "upper_sd") >>, << 3 >>),
     RV("c50_mu", "Normal", << Const("mu", 0), Const("sd", 3) >>, << >>),
     RV("c50_sd", "Exponential", << Const("lam", 5) >>, << >>),
     RV("c50", "Normal", << Ref("mu", "c50_mu"), Ref("sd", "c50_sd") >>, << 3 >>),
     RV("slope_sd", "Exponential", << Const("lam", 5) >>, << >>),
     RV("slope", "HalfNormal", << Const("sd", 10) >>, << 3 >>),
     RV("sd", "HalfNormal", << Const("sd", 10) >>, << 3 >>) >>

\* The free random variables of model_v2.
ModelV2RVs ==
  << RV("lower_mu", "Normal", << Const("mu", 0), Const("sd", 3) >>, << >>),
     RV("lower_sd", "Exponential", << Const("lam", 5) >>, << >>),
     RV("lower", "Normal", << Ref("mu", "lower_mu"), Ref("sd", "lower_sd") >>, << 3 >>),
     RV("upper_mu", "Normal", << Const("mu", 7), Const("sd", 3) >>, << >>),
     RV("upper_sd", "Exponential", << Const("lam", 5) >>, << >>),
     RV("upper", "Normal", << Ref("mu", "upper_mu"), Ref("sd", "upper_sd") >>, << 3 >>),
     RV("c50_mu", "Normal", << Const("mu", 0), Const("sd", 3) >>, << >>),
     RV("c50_sd", "Exponential", << Const("lam", 5) >>, << >>),
     RV("c50", "Normal", << Ref("mu", "c50_mu"), Ref("sd", "c50_sd") >>, << 3 >>),
     RV("slope_sd", "Exponential", << Const("lam", 5) >>, << >>),
     RV("slope", "HalfNormal", << Ref("sd", "slope_sd") >>, << 3 >>),
     RV("sd", "HalfNormal", << Const("sd", 10) >>, << 3 >>) >>

\* model_v3 with upper left normal as in model_v2.
ModelV3RVs_normalUpper ==
  << RV("lower_mu", "HalfNormal", << Const("sd", 10) >>, << >>),
     RV("lower_sd", "Exponential", << Const("lam", 5) >>, << >>),
     RV("lower", "Gamma", << Ref("mu", "lower_mu"), Ref("sd", "lower_sd") >>, << 3 >>),
     RV("upper_mu", "HalfNormal", << Const("sd", 10) >>, << >>),
     RV("upper_sd", "Exponential", << Const("lam", 5) >>, << >>),
     RV("upper", "Normal", << Ref("mu", "upper_mu"), Ref("sd", "upper_sd") >>, << 3 >>),
     RV("c50_mu", "Normal", << Const("mu", 0), Const("sd", 3) >>, << >>),
     RV("c50_sd", "Exponential", << Const("lam", 5) >>, << >>),
     RV("c50", "Normal", << Ref("mu", "c50_mu"), Ref("sd", "c50_sd") >>, << 3 >>),
     RV("slope_sd", "Exponential", << Const("lam", 5) >>, << >>),
     RV("slope", "HalfNormal", << Ref("sd", "slope_sd") >>, << 3 >>),
     RV("sd", "HalfNormal", << Const("sd", 10) >>, << 3 >>) >>

\* The free random variables of model_v3.
ModelV3RVs ==
  << RV("lower_mu", "HalfNormal", << Const("sd", 10) >>, << >>),
     RV("lower_sd", "Exponential", << Const("lam", 5) >>, << >>),
     RV("lower", "Gamma", << Ref("mu", "lower_mu"), Ref("sd", "lower_sd") >>, << 3 >>),
     RV("upper_mu", "HalfNormal", << Const("sd", 10) >>, << >>),
     RV("upper_sd", "Exponential", << Const("lam", 5) >>, << >>),
     RV("upper", "Gamma", << Ref("mu", "upper_mu"), Ref("sd", "upper_sd") >>, << 3 >>),
     RV("c50_mu", "Normal", << Const("mu", 0), Const("sd", 3) >>, << >>),
     RV("c50_sd", "Exponential", << Const("lam", 5) >>, << >>),
     RV("c50", "Normal", << Ref("mu", "c50_mu"), Ref("sd", "c50_sd") >>, << 3 >>),
     RV("slope_sd", "Exponential", << Const("lam", 5) >>, << >>),
     RV("slope", "HalfNormal", << Ref("sd", "slope_sd") >>, << 3 >>),
     RV("sd", "HalfNormal", << Const("sd", 10) >>, << 3 >>) >>

\* with pm.Model() as <name>: the priors, then mu and the likelihood over df.
BuildModel(name, rvs, d) == [name |-> name, rvs |-> rvs, like |-> Likelihood(d)]

\* The random variable called n in model m (m defines it).
RVOf(m, n) == m.rvs[CHOOSE i \in 1..Len(m.rvs) : m.rvs[i].name = n]
Defines(m, n) == \E i \in 1..Len(m.rvs) : m.rvs[i].name = n

\* The random variables among the arguments of rv.
Parents(rv) == {rv.params[i].rv : i \in 1..Len(rv.params)} \ {""}

\* A scalar free random variable of m: one value shared by all molecules.
GroupLevel(m, n) == Defines(m, n) /\ RVOf(m, n).shape = << >> /\ ~RVOf(m, n).observed

\* ------------------------------------------------- sampling --------------

\* The number of elements of a random variable.
Size(rv) == IF rv.shape = << >> THEN 1 ELSE rv.shape[1]

\* One value of a distribution's support; k selects it.
DrawValue(dist, k) ==
  IF Support(dist) = "real" THEN Lit((k % 5) - 2, 2)
  ELSE IF Support(dist) = "nonnegative" THEN Lit(k % 3, 2)
  ELSE Lit((k % 3) + 1, 2)

\* pm.sample(n) inside `with m:`: for every free random variable of m, Draws
\* draws of its value.  What the sampler returns depends on the chain's seed;
\* the draws lie in the variable's support.
Sample(m, seed) ==
  [n \in {m.rvs[i].name : i \in 1..Len(m.rvs)} |->
     [d \in 1..Draws |->
        [j \in 1..Size(RVOf(m, n)) |->
           DrawValue(RVOf(m, n).dist, seed + 2 * d + j + Len(n))]]]

NoTrace == [n \in {} |-> << >>]

RECURSIVE SumDraws(_, _, _)
SumDraws(draws, j, d) ==
  IF d = 0 THEN 0 ELSE FAdd(SumDraws(draws, j, d - 1), draws[d][j])

\* a.mean(axis=0) of the draws of one variable: the mean over the draws of
\* each element.
MeanAxis0(draws) ==
  [j \in 1..Len(draws[1]) |-> FDiv(SumDraws(draws, j, Len(draws)), Lit(Len(draws), 1))]

\* ------------------------------------------------- the cells -------------

\* A statement reads names of the kernel's namespace and binds names.
S(reads, writes) == [reads |-> reads, writes |-> writes]

\* The statements of a model cell: the `with` line, the priors, mu, sd, like.
ModelStmts(name, hyper) ==
  << S({"pm"}, {name}) >> \o hyper \o
  << S({"dose_response", "np", "df", "lower", "upper", "slope", "c50"}, {"mu"}),
     S({"pm"}, {"sd"}),
     S({"pm", "mu", "sd", "df"}, {"y"}) >>

FlatPriors ==
  << S({"pm"}, {"lower"}), S({"pm"}, {"upper"}), S({"pm"}, {"c50"}), S({"pm"}, {"slope"}) >>

GroupPriors ==
  << S({"pm"}, {"lower_mu"}), S({"pm"}, {"lower_sd"}),
     S({"pm", "lower_mu", "lower_sd"}, {"lower"}),
     S({"pm"}, {"upper_mu"}), S({"pm"}, {"upper_sd"}),
     S({"pm", "upper_mu", "upper_sd"}, {"upper"}),
     S({"pm"}, {"c50_mu"}), S({"pm"}, {"c50_sd"}),
     S({"pm", "c50_mu", "c50_sd"}, {"c50"}),
     S({"pm"}, {"slope_sd"}),
     S({"pm", "slope_sd"}, {"slope"}) >>

\* The code cells, top to bottom: the statements of each.
Cells ==
  << \* 1: the imports
     << S({}, {"pm"}), S({}, {"plt"}), S({}, {"np"}), S({}, {"pd"}) >>,
     \* 2: x1, x2, x3
     << S({"np"}, {"x1"}), S({"np"}, {"x2"}), S({"np"}, {"x3"}) >>,
     \* 3: def dose_response, def noise
     << S({}, {"dose_response"}), S({}, {"noise"}) >>,
     \* 4: y1, y2, y3 and the scatter plots
     << S({"dose_response", "noise", "np", "x1"}, {"y1"}),
        S({"dose_response", "noise", "np", "x2"}, {"y2"}),
        S({"dose_response", "noise", "np", "x3"}, {"y3"}),
        S({"plt", "x1", "y1"}, {}), S({"plt", "x2", "y2"}, {}), S({"plt", "x3", "y3"}, {}) >>,
     \* 5: df
     << S({"pd", "np", "len", "x1", "x2", "x3", "y1", "y2", "y3"}, {"df"}) >>,
     \* 6: model
     ModelStmts("model", FlatPriors),
     \* 7: trace
     << S({"model"}, {}), S({"pm"}, {"trace"}) >>,
     \* 8: traceplot(trace), plt.show()
     << S({"pm", "trace"}, {}), S({"plt"}, {}) >>,
     \* 9: model_v2
     ModelStmts("model_v2", GroupPriors),
     \* 10: trace_v2
     << S({"model_v2"}, {}), S({"pm"}, {"trace_v2"}) >>,
     \* 11: traceplot(trace_v2)
     << S({"pm", "trace_v2"}, {}) >>,
     \* 12: model_v3
     ModelStmts("model_v3", GroupPriors),
     \* 13: trace_v3
     << S({"model_v3"}, {}), S({"pm"}, {"trace_v3"}) >>,
     \* 14: traceplot(trace_v3)
     << S({"pm", "trace_v3"}, {}) >>,
     \* 15: upper = trace_v3["upper"].mean(axis=0)
     << S({"trace_v3"}, {"upper"}) >>,
     \* 16: upper
     << S({"upper"}, {}) >>,
     \* 17: the empty cell
     << >> >>

NCells == Len(Cells)

\* Cell 11 plotting the trace of the next model.
CellStmts_nextTrace(c) ==
  IF c = 11 THEN << S({"pm", "trace_v3"}, {}) >> ELSE Cells[c]

CellStmts(c) == Cells[c]

\* Builtins are bound before any cell runs.
Builtins == {"len"}

RECURSIVE ExecFrom(_, _, _)
\* Run statements i.. of a cell in the namespace b: a statement that reads an
\* unbound name raises NameError and the cell stops there.
ExecFrom(stmts, i, b) ==
  IF i > Len(stmts) THEN [ok |-> TRUE, bound |-> b]
  ELSE IF stmts[i].reads \subseteq b
       THEN ExecFrom(stmts, i + 1, b \cup stmts[i].writes)
       ELSE [ok |-> FALSE, bound |-> b]

\* ------------------------------------------------- state -----------------

VARIABLES
  pc,          \* the code cell that runs next; NCells + 1 when all have run
  bound,       \* the names bound in the kernel's namespace
  err,         \* "none", or the exception that stopped the run
  x1, x2, x3,  \* the concentration arrays
  y1, y2, y3,  \* the response arrays
  eps,         \* the arrays noise() returned, in call order
  df,          \* the data frame
  model, model_v2, model_v3,
  trace, trace_v2, trace_v3,
  upper_post,  \* the global `upper` once cell 15 has bound it to the mean
  figs,        \* the plots drawn so far
  args,        \* dose_response alone: its arguments,
  res,         \* its results,
  dpc          \* and whether it has been called

arrays == << x1, x2, x3 >>
responses == << y1, y2, y3, eps >>
models == << model, model_v2, model_v3 >>
traces == << trace, trace_v2, trace_v3 >>
drvars == << args, res, dpc >>
vars == << pc, bound, err, arrays, responses, df, models, traces, upper_post, figs, drvars >>

NoArgs == [x |-> 0, xp |-> 0, lower |-> 0, upper |-> 0, slope |-> 0, c50 |-> 0]
NoRes == [y |-> 0, yp |-> 0, mid |-> 0]

InitNotebook ==
  /\ pc = 1
  /\ bound = Builtins
  /\ err = "none"
  /\ x1 = << >> /\ x2 = << >> /\ x3 = << >>
  /\ y1 = << >> /\ y2 = << >> /\ y3 = << >>
  /\ eps = << >>
  /\ df = NoFrame
  /\ model = NoModel /\ model_v2 = NoModel /\ model_v3 = NoModel
  /\ trace = NoTrace /\ trace_v2 = NoTrace /\ trace_v3 = NoTrace
  /\ upper_post = << >>
  /\ figs = << >>

Init == InitNotebook /\ args = NoArgs /\ res = NoRes /\ dpc = "idle"

\* Cell c is the next to run; its statements run in order.
Begin(c) == pc = c /\ err = "none"
Names(c) == ExecFrom(CellStmts(c), 1, bound)
Ran(c) == Names(c).ok
Advance(c) ==
  /\ bound' = Names(c).bound
  /\ IF Ran(c) THEN pc' = c + 1 /\ err' = err
               ELSE pc' = pc /\ err' = "NameError"

\* ------------------------------------------------- the cells' actions ----

Fig(kind, data) == [kind |-> kind, data |-> data]

\* Cell 1: import pymc3 as pm, matplotlib.pyplot as plt, numpy as np, pandas as pd.
CellImports ==
  /\ Begin(1) /\ Advance(1)
  /\ UNCHANGED << arrays, responses, df, models, traces, upper_post, figs, drvars >>

\* Cell 2: x1 = x2 = x3 = np.vstack([np.linspace(-2, 2, 10)] * 5).
CellConcentrations ==
  /\ Begin(2) /\ Advance(2)
  /\ IF Ran(2)
     THEN /\ x1' = VStack(Linspace(Lit(-2, 1), Lit(2, 1), NConc), Replicates)
          /\ x2' = VStack(Linspace(Lit(-2, 1), Lit(2, 1), NConc), Replicates)
          /\ x3' = VStack(Linspace(Lit(-2, 1), Lit(2, 1), NConc), Replicates)
     ELSE UNCHANGED arrays
  /\ UNCHANGED << responses, df, models, traces, upper_post, figs, drvars >>

\* Cell 3: def dose_response, def noise.
CellFunctions ==
  /\ Begin(3) /\ Advance(3)
  /\ UNCHANGED << arrays, responses, df, models, traces, upper_post, figs, drvars >>

\* Cell 4: yk = dose_response(xk, ...) + noise(xk, 0.5), then the scatter plots.
\* The three calls of noise() draw from one generator, one after the other;
\* the generator's state when the cell starts is any seed.
CellResponses ==
  /\ Begin(4) /\ Advance(4)
  /\ IF Ran(4)
     THEN \E seed \in 1..MaxSeed :
            LET e1 == noise(x1, NoiseSD, seed, 0)
                e2 == noise(x2, NoiseSD, seed, Replicates * NConc)
                e3 == noise(x3, NoiseSD, seed, 2 * Replicates * NConc)
            IN  /\ eps' = << e1, e2, e3 >>
                /\ y1' = Response(x1, Params[1], e1)
                /\ y2' = Response(x2, Params[2], e2)
                /\ y3' = Response(x3, Params[3], e3)
                /\ figs' = figs \o << Fig("scatter", "y1"), Fig("scatter", "y2"),
                                      Fig("scatter", "y3") >>
     ELSE UNCHANGED << responses, figs >>
  /\ UNCHANGED << arrays, df, models, traces, upper_post, drvars >>

\* Cell 5: df = pd.DataFrame({...}).
CellDataFrame ==
  /\ Begin(5) /\ Advance(5)
  /\ IF Ran(5) THEN df' = DataFrame(x1, x2, x3, y1, y2, y3) ELSE UNCHANGED df
  /\ UNCHANGED << arrays, responses, models, traces, upper_post, figs, drvars >>

\* Cell 6: with pm.Model() as model.
CellModel ==
  /\ Begin(6) /\ Advance(6)
  /\ IF Ran(6) THEN model' = BuildModel("model", ModelRVs, df) ELSE UNCHANGED model
  /\ UNCHANGED << arrays, responses, df, model_v2, model_v3, traces, upper_post, figs, drvars >>

\* Cell 7: with model: trace = pm.sample(2000).
CellSample ==
  /\ Begin(7) /\ Advance(7)
  /\ IF Ran(7) THEN \E s \in 1..MaxChainSeed : trace' = Sample(model, s)
               ELSE UNCHANGED trace
  /\ UNCHANGED << arrays, responses, df, models, trace_v2, trace_v3, upper_post, figs, drvars >>

\* Cell 8: pm.traceplot(trace, varnames=["upper"]); plt.show().
CellTraceplot ==
  /\ Begin(8) /\ Advance(8)
  /\ IF Ran(8) THEN figs' = Append(figs, Fig("traceplot", "trace")) ELSE UNCHANGED figs
  /\ UNCHANGED << arrays, responses, df, models, traces, upper_post, drvars >>

\* Cell 9: with pm.Model() as model_v2.
CellModelV2 ==
  /\ Begin(9) /\ Advance(9)
  /\ IF Ran(9) THEN model_v2' = BuildModel("model_v2", ModelV2RVs, df)
               ELSE UNCHANGED model_v2
  /\ UNCHANGED << arrays, responses, df, model, model_v3, traces, upper_post, figs, drvars >>

\* Cell 10: with model_v2: trace_v2 = pm.sample(2000).
CellSampleV2 ==
  /\ Begin(10) /\ Advance(10)
  /\ IF Ran(10) THEN \E s \in 1..MaxChainSeed : trace_v2' = Sample(model_v2, s)
                ELSE UNCHANGED trace_v2
  /\ UNCHANGED << arrays, responses, df, models, trace, trace_v3, upper_post, figs, drvars >>

\* Cell 11: pm.traceplot(trace_v2, varnames=["upper"]).
CellTraceplotV2 ==
  /\ Begin(11) /\ Advance(11)
  /\ IF Ran(11) THEN figs' = Append(figs, Fig("traceplot", "trace_v2")) ELSE UNCHANGED figs
  /\ UNCHANGED << arrays, responses, df, models, traces, upper_post, drvars >>

\* Cell 12: with pm.Model() as model_v3.
CellModelV3 ==
  /\ Begin(12) /\ Advance(12)
  /\ IF Ran(12) THEN model_v3' = BuildModel("model_v3", ModelV3RVs, df)
                ELSE UNCHANGED model_v3
  /\ UNCHANGED << arrays, responses, df, model, model_v2, traces, upper_post, figs, drvars >>

\* Cell 13: with model_v3: trace_v3 = pm.sample(2000).
CellSampleV3 ==
  /\ Begin(13) /\ Advance(13)
  /\ IF Ran(13) THEN \E s \in 1..MaxChainSeed : trace_v3' = Sample(model_v3, s)
                ELSE UNCHANGED trace_v3
  /\ UNCHANGED << arrays, responses, df, models, trace, trace_v2, upper_post, figs, drvars >>

\* Cell 14: pm.traceplot(trace_v3, varnames=["upper"]).
CellTraceplotV3 ==
  /\ Begin(14) /\ Advance(14)
  /\ IF Ran(14) THEN figs' = Append(figs, Fig("traceplot", "trace_v3")) ELSE UNCHANGED figs
  /\ UNCHANGED << arrays, responses, df, models, traces, upper_post, drvars >>

\* Cell 15: upper = trace_v3["upper"].mean(axis=0).
CellPosteriorMean ==
  /\ Begin(15) /\ Advance(15)
  /\ IF Ran(15) THEN upper_post' = MeanAxis0(trace_v3["upper"]) ELSE UNCHANGED upper_post
  /\ UNCHANGED << arrays, responses, df, models, traces, figs, drvars >>

\* Cell 16: upper (the cell displays it).
CellShowUpper ==
  /\ Begin(16) /\ Advance(16)
  /\ UNCHANGED << arrays, responses, df, models, traces, upper_post, figs, drvars >>

\* Cell 17: the empty cell.
CellEmpty ==
  /\ Begin(17) /\ Advance(17)
  /\ UNCHANGED << arrays, responses, df, models, traces, upper_post, figs, drvars >>

Next ==
  \/ CellImports \/ CellConcentrations \/ CellFunctions \/ CellResponses
  \/ CellDataFrame \/ CellModel \/ CellSample \/ CellTraceplot
  \/ CellModelV2 \/ CellSampleV2 \/ CellTraceplotV2
  \/ CellModelV3 \/ CellSampleV3 \/ CellTraceplotV3
  \/ CellPosteriorMean \/ CellShowUpper \/ CellEmpty

Spec == Init /\ [][Next]_vars

\* ------------------------------------------------- dose_response alone ---

\* The arguments tried: the concentrations k/2, the plateaus, slopes and
\* midpoints of the notebook's three curves, and values around them.
Xs == {Lit(k, 2) : k \in (0 - MaxX)..MaxX}
Lowers == {Lit(-3, 1), Lit(25, 10), Lit(3, 1), Lit(32, 10)}
Uppers == {Lit(-8, 10), Lit(34, 10), Lit(6, 1), Lit(8, 1)}
Slopes == {Lit(-2, 1), Lit(0, 1), Lit(15, 10), Lit(3, 1), Lit(4, 1)}
C50s == {Lit(-1, 2), Lit(0, 1), Lit(15, 10)}

InitDR ==
  /\ InitNotebook
  /\ args \in [x : Xs, xp : Xs, lower : Lowers, upper : Uppers, slope : Slopes, c50 : C50s]
  /\ res = NoRes
  /\ dpc = "call"

\* dose_response is called at x, at xp and at c50, with the same parameters.
CallDoseResponse ==
  /\ dpc = "call"
  /\ res' = [y |-> dose_response(args.x, args.lower, args.upper, args.slope, args.c50),
             yp |-> dose_response(args.xp, args.lower, args.upper, args.slope, args.c50),
             mid |-> dose_response(args.c50, args.lower, args.upper, args.slope, args.c50)]
  /\ dpc' = "done"
  /\ UNCHANGED << pc, bound, err, arrays, responses, df, models, traces, upper_post, figs, args >>

NextDR == CallDoseResponse

SpecDR == InitDR /\ [][NextDR]_vars

\* ------------------------------------------------- properties ------------

Built(name) == name \in bound
CurveParams == {"lower", "upper", "slope", "c50"}
PerMolecule == CurveParams \cup {"sd"}

\* Every curve parameter of m is a vector over the molecules whose prior has
\* a group-level random variable of m among its arguments.
PartiallyPooled(m) ==
  \A p \in CurveParams :
    /\ Defines(m, p)
    /\ RVOf(m, p).shape = << NMolecules >>
    /\ \E g \in Parents(RVOf(m, p)) : GroupLevel(m, g)

\* Every curve parameter of m is a vector over the molecules whose prior has
\* only numbers as arguments: the molecules share nothing.
Unpooled(m) ==
  \A p \in CurveParams :
    /\ Defines(m, p)
    /\ RVOf(m, p).shape = << NMolecules >>
    /\ Parents(RVOf(m, p)) = {}

\* C1, as stated: every model version the notebook builds (model, model_v2,
\* model_v3) gives each of lower, upper, slope and c50 a per-molecule prior
\* (shape 3) that depends on a group-level random variable of the same model.
C1_AllVersionsPooled ==
  /\ Built("model") => PartiallyPooled(model)
  /\ Built("model_v2") => PartiallyPooled(model_v2)
  /\ Built("model_v3") => PartiallyPooled(model_v3)

\* C1, amended: model_v2 and model_v3 pool partially (each of lower, upper,
\* slope and c50 has shape 3 and a group-level random variable of the same
\* model among its prior's arguments); the first version, model, gives the
\* four parameters per-molecule priors with fixed numbers only.
C1_PooledFromV2 ==
  /\ Built("model") => Unpooled(model)
  /\ Built("model_v2") => PartiallyPooled(model_v2)
  /\ Built("model_v3") => PartiallyPooled(model_v3)

\* The three versions have been built and sampled.
C1_Witness ==
  /\ Built("trace") /\ Built("trace_v2") /\ Built("trace_v3")
  /\ DOMAIN trace_v3 # {}
  /\ Unpooled(model) /\ PartiallyPooled(model_v3)

\* lower + (upper - lower) / 2, as the notebook's arithmetic computes it.
Halfway(lower, upper) == FAdd(lower, FDiv(FSub(upper, lower), Lit(2, 1)))

\* C2: dose_response at x = c50 returns lower + (upper - lower) / 2, for
\* every lower, upper, slope and c50.
C2_Midpoint ==
  dpc = "done" => res.mid = Halfway(args.lower, args.upper)

\* dose_response was called at the midpoint of a curve with distinct
\* plateaus, a slope and a midpoint other than 0.
C2_Witness ==
  /\ dpc = "done"
  /\ args.lower < args.upper /\ args.slope > 0 /\ args.c50 > 0
  /\ res.mid = Halfway(args.lower, args.upper)
  /\ res.mid > args.lower /\ res.mid < args.upper

\* C3, as stated: for lower <= upper the value of dose_response lies in the
\* closed interval [lower, upper], whatever x, slope and c50.
C3_WithinPlateaus ==
  (dpc = "done" /\ args.lower <= args.upper) =>
    (args.lower <= res.y /\ res.y <= args.upper)

\* C3, amended: for lower <= upper the value of dose_response is never below
\* lower and never above lower + (upper - lower) as the floating-point
\* arithmetic computes that sum, which is upper up to rounding and may exceed
\* upper by the rounding error.
C3_WithinRoundedPlateaus ==
  (dpc = "done" /\ args.lower <= args.upper) =>
    /\ args.lower <= res.y
    /\ res.y <= FAdd(args.lower, FSub(args.upper, args.lower))
    /\ (FAdd(args.lower, FSub(args.upper, args.lower)) = args.upper => res.y <= args.upper)

\* dose_response returned a value above the upper plateau, with lower < upper.
C3_Witness ==
  /\ dpc = "done"
  /\ args.lower < args.upper
  /\ res.y > args.upper
  /\ res.y = FAdd(args.lower, FSub(args.upper, args.lower))

\* C4: the three parameter sets of y1, y2, y3 have upper >= lower and
\* slope >= 0, and whenever upper >= lower and slope >= 0, x <= x' implies
\* dose_response(x, ...) <= dose_response(x', ...).
C4_Monotone ==
  /\ \A m \in 1..NMolecules : Params[m].upper >= Params[m].lower /\ Params[m].slope >= 0
  /\ (dpc = "done" /\ args.upper >= args.lower /\ args.slope >= 0 /\ args.x <= args.xp)
       => res.y <= res.yp

\* dose_response was called at x < x' on one of the notebook's curves and
\* returned a strictly larger value at x'.
C4_Witness ==
  /\ dpc = "done"
  /\ \E m \in 1..NMolecules :
       /\ args.lower = Params[m].lower /\ args.upper = Params[m].upper
       /\ args.slope = Params[m].slope /\ args.c50 = Params[m].c50
  /\ args.x < args.xp
  /\ res.y < res.yp

\* The row of df at position i holds observation (r, c) of its molecule.
RowLine(i) == (((i - 1) % (Replicates * NConc)) \div NConc) + 1
RowPoint(i) == ((i - 1) % NConc) + 1
XOf(m) == IF m = 0 THEN x1 ELSE IF m = 1 THEN x2 ELSE x3
YOf(m) == IF m = 0 THEN y1 ELSE IF m = 1 THEN y2 ELSE y3

\* C5: df has 150 rows; each label 0, 1, 2 is on exactly 50 rows, which
\* are 5 replicates of the same 10 concentrations from -2 to 2; and on every
\* row concentration, response and label belong to one generated observation:
\* the response is the curve of molecule[i] at concentration[i] plus the
\* noise drawn for that observation.
C5_FrameAligned ==
  Built("df") =>
    LET conc == df.concentration.values
        resp == df.response.values
        mol == df.molecule.values
        grid == Linspace(Lit(-2, 1), Lit(2, 1), 10)
    IN  /\ Len(conc) = 150 /\ Len(resp) = 150 /\ Len(mol) = 150
        /\ \A m \in 0..2 : Cardinality({i \in 1..Len(mol) : mol[i] = m}) = 50
        /\ grid[1] = Lit(-2, 1) /\ grid[10] = Lit(2, 1)
        /\ \A i \in 1..Len(mol) :
             /\ mol[i] \in 0..2
             /\ conc[i] = grid[RowPoint(i)]
             /\ conc[i] = XOf(mol[i])[RowLine(i)][RowPoint(i)]
             /\ resp[i] = YOf(mol[i])[RowLine(i)][RowPoint(i)]
             /\ resp[i] = FAdd(dose_response(conc[i], Params[mol[i] + 1].lower,
                                             Params[mol[i] + 1].upper,
                                             Params[mol[i] + 1].slope,
                                             Params[mol[i] + 1].c50),
                               eps[mol[i] + 1][RowLine(i)][RowPoint(i)])

\* df is built, and the three molecules' responses differ at the same
\* concentration.
C5_Witness ==
  /\ Built("df")
  /\ Len(df.response.values) = NRows
  /\ df.response.values[NConc] # df.response.values[Replicates * NConc + NConc]
  /\ df.concentration.values[NConc] = df.concentration.values[Replicates * NConc + NConc]

TraceOf(name) ==
  IF name = "trace" THEN trace ELSE IF name = "trace_v2" THEN trace_v2 ELSE trace_v3

\* The trace t holds draws of every free random variable of a model m whose
\* likelihood is specified.
SampledComplete(t, m) ==
  /\ m.like.rv.observed
  /\ Len(m.like.mu) = NRows
  /\ DOMAIN t = {m.rvs[i].name : i \in 1..Len(m.rvs)}
  /\ \A n \in DOMAIN t : Len(t[n]) = Draws

\* C6: run once top to bottom, no cell reads an unbound name; the data exists
\* before any model is specified, each trace comes from a model whose priors
\* and likelihood were complete, and each traceplot and the posterior mean
\* read a trace produced before.
C6_LinearRun ==
  /\ err = "none"
  /\ \A c \in 1..(pc - 1) : \A i \in 1..Len(Cells[c]) : Cells[c][i].writes \subseteq bound
  /\ (Built("model") \/ Built("model_v2") \/ Built("model_v3")) =>
       (Built("df") /\ Len(df.response.values) = NRows)
  /\ Built("model") => Len(model.like.observed) = NRows
  /\ Built("model_v2") => Len(model_v2.like.observed) = NRows
  /\ Built("model_v3") => Len(model_v3.like.observed) = NRows
  /\ Built("trace") => (Built("model") /\ SampledComplete(trace, model))
  /\ Built("trace_v2") => (Built("model_v2") /\ SampledComplete(trace_v2, model_v2))
  /\ Built("trace_v3") => (Built("model_v3") /\ SampledComplete(trace_v3, model_v3))
  /\ \A k \in 1..Len(figs) :
       figs[k].kind = "traceplot" =>
         (Built(figs[k].data) /\ "upper" \in DOMAIN TraceOf(figs[k].data))
  /\ Len(upper_post) > 0 => (Built("trace_v3") /\ Built("upper"))

\* Every cell has run, without an exception.
C6_Witness ==
  /\ pc = NCells + 1
  /\ err = "none"
  /\ Len(figs) = 6
  /\ Len(upper_post) = NMolecules

\* C7, as stated: every column of df holds floating-point values.
C7_AllFloat ==
  Built("df") =>
    /\ df.concentration.dtype = "float64"
    /\ df.response.dtype = "float64"
    /\ df.molecule.dtype = "float64"

\* C7, amended: the concentration and response columns of df hold
\* floating-point values; the molecule column holds the integers 0, 1, 2.
C7_FloatsAndLabels ==
  Built("df") =>
    /\ df.concentration.dtype = "float64"
    /\ df.response.dtype = "float64"
    /\ df.molecule.dtype = "int64"
    /\ \A i \in 1..Len(df.molecule.values) : df.molecule.values[i] \in 0..(NMolecules - 1)

\* df is built with its three columns filled.
C7_Witness ==
  /\ Built("df")
  /\ Len(df.concentration.values) = NRows
  /\ Len(df.molecule.values) = NRows
  /\ df.molecule.dtype = "int64"

\* In model m the row i of the likelihood uses element molecule[i] of each
\* per-molecule vector, and that element exists.
RowsConsistent(m) ==
  LET mol == df.molecule.values
  IN  /\ \A p \in PerMolecule : Defines(m, p) /\ RVOf(m, p).shape = << 3 >>
      /\ Len(m.like.mu) = Len(mol) /\ Len(m.like.sd) = Len(mol) /\ Len(mol) = NRows
      /\ \A i \in 1..Len(mol) :
           /\ mol[i] \in {0, 1, 2}
           /\ m.like.mu[i].x = df.concentration.values[i]
           /\ m.like.observed[i] = df.response.values[i]
           /\ m.like.mu[i].lower = [rv |-> "lower", at |-> mol[i]]
           /\ m.like.mu[i].upper = [rv |-> "upper", at |-> mol[i]]
           /\ m.like.mu[i].slope = [rv |-> "slope", at |-> mol[i]]
           /\ m.like.mu[i].c50 = [rv |-> "c50", at |-> mol[i]]
           /\ m.like.sd[i] = [rv |-> "sd", at |-> mol[i]]
           /\ \A f \in {m.like.mu[i].lower, m.like.mu[i].upper, m.like.mu[i].slope,
                        m.like.mu[i].c50, m.like.sd[i]} :
                f.at >= 0 /\ f.at < Size(RVOf(m, f.rv))

\* C8: in the three model versions the five per-molecule vectors have length
\* 3, every value of df["molecule"] is in {0, 1, 2}, and the mean and the sd of
\* observation i are built from the entries at index molecule[i].
C8_LookupInBounds ==
  /\ Built("model") => RowsConsistent(model)
  /\ Built("model_v2") => RowsConsistent(model_v2)
  /\ Built("model_v3") => RowsConsistent(model_v3)

\* The three models are built, and rows of all three molecules look up their
\* own entries.
C8_Witness ==
  /\ Built("model") /\ Built("model_v2") /\ Built("model_v3")
  /\ model_v3.like.mu[1].lower.at = 0
  /\ model_v3.like.mu[Replicates * NConc + 1].upper.at = 1
  /\ model_v3.like.sd[NRows].at = 2

SupportOf(m, n) == Support(RVOf(m, n).dist)

\* C9: in model_v3 lower and upper have strictly positive support, in model
\* and model_v2 they range over all reals; in the three versions slope and sd
\* have non-negative support and c50 ranges over all reals.
C9_Supports ==
  /\ Built("model_v3") =>
       (SupportOf(model_v3, "lower") = "positive" /\ SupportOf(model_v3, "upper") = "positive")
  /\ Built("model") =>
       (SupportOf(model, "lower") = "real" /\ SupportOf(model, "upper") = "real")
  /\ Built("model_v2") =>
       (SupportOf(model_v2, "lower") = "real" /\ SupportOf(model_v2, "upper") = "real")
  /\ \A m \in {model, model_v2, model_v3} :
       m.name # "" =>
         /\ SupportOf(m, "slope") = "nonnegative"
         /\ SupportOf(m, "sd") = "nonnegative"
         /\ SupportOf(m, "c50") = "real"

\* The three versions are sampled: a draw of upper is negative in model_v2's
\* trace, and every draw of lower and upper is positive in model_v3's.
C9_Witness ==
  /\ Built("trace_v2") /\ Built("trace_v3")
  /\ \E d \in 1..Draws : \E j \in 1..NMolecules : trace_v2["upper"][d][j] < 0
  /\ \A n \in {"lower", "upper"} : \A d \in 1..Draws : \A j \in 1..NMolecules :
       trace_v3[n][d][j] > 0
====
